---- MODULE Spec2Model ----
(***************************************************************************)
(* Model of src/src/reactor.rs: the select()-based reactor of              *)
(* async-io-mini.  Registrations<N> (the registration table, the eventfd   *)
(* notification channel and the `waiting` counter) and Reactor<N> (mutex,  *)
(* condition variable, `started` flag, poll thread, modify/apply           *)
(* handshake).                                                             *)
(*                                                                         *)
(* Every closure passed to Reactor::lock runs with the one mutex held, so  *)
(* each critical section is one atomic action.  Option<T> is modelled as a *)
(* set with at most one element: None is {} and Some(x) is {x}.            *)
(***************************************************************************)
EXTENDS Integers, Sequences, FiniteSets, TLC

\* ------------------------------------------------------------------ bounds

\* sys::FD_SETSIZE (1024 on Linux), scaled down: descriptors 0..FD_SETSIZE-1
\* fit the fd_set bitmaps.
FD_SETSIZE == 2

\* Number of distinct tasks owning wakers, and of Waker handles per task
\* (clones of one task's waker are different handles with the same target).
NumTasks == 2
NumClones == 2

\* Caller threads that issue modify calls, start() calls made, and the
\* modify calls issued in the specification with a finite workload.
NumThreads == 2
NumStarts == 2
MaxCalls == 3

\* Descriptors 0..MaxUserFd are the ones callers of the running reactor use.
MaxUserFd == 0

\* Largest const-generic capacity N the table-level specification instantiates
\* Registrations<N> with (never above MAX_REGISTRATIONS).
MaxCap == 2

\* ------------------------------------------------------------------ types

MAX_REGISTRATIONS == FD_SETSIZE

Event == {"Read", "Write"}

\* EnumSet::ALL iterates in discriminant order: Read = 0, Write = 1.
EventOrder == <<"Read", "Write">>

\* A Waker: <<target task, handle>>.  Task 1 hands out NumClones handles to
\* its waker, every other task one.
Wakers == {<<1, c>> : c \in 1..NumClones} \cup {<<t, 1>> : t \in 2..NumTasks}

\* Mutant of will_wake: handles are compared, not their targets.
will_wake_same_handle(a, b) == a = b

\* Waker::will_wake: both handles wake the same task.
will_wake(a, b) == a[1] = b[1]

\* Descriptors callers pass: every representable one, one negative, one too big.
FdInputs == -1 .. FD_SETSIZE

NoWakers == [e \in Event |-> {}]

\* Registration { fd, events: EnumSet::empty(), wakers: [None, None] }
NewRegistration(fd) == [fd |-> fd, events |-> {}, wakers |-> NoWakers]

Threads == 1..NumThreads

VARIABLES
    vec,        \* Registrations.vec: sequence of Registration records
    event_fd,   \* Registrations.event_fd: {} or {descriptor}
    waiting,    \* Registrations.waiting
    cap,        \* the const generic N of Registrations<N>
    started,    \* Reactor.started
    starts,     \* start() calls: made, in flight after the swap, and by outcome
    ppc,        \* the poll thread's position in Reactor::run
    update,     \* run's local `update`
    fds,        \* run's local `fds`: [Read |-> set, Write |-> set] of descriptors
    pending,    \* the eventfd's counter is nonzero
    result,     \* run's `result` once it is an error, and the thread's outcome
    pc,         \* each caller thread's position in Reactor::modify
    res,        \* each caller thread's captured `result`
    served,     \* history: apply sections completed since the thread's table operation
    epoch,      \* history, kept by Modify: the thread's call was issued "before"
                \* the poll thread's first step, "after" the thread ended, or
                \* "during" its life
    held,       \* history: per event, the descriptors whose registration held a
                \* waker when the bitsets were last built and is still the same
    budget,     \* modify calls still to be issued (finite workload only)
    invoked,    \* the wakers the last step invoked, in order: [fd, ev, wk]
    last        \* table-level specification: the last method called and its result

regs == <<vec, event_fd, waiting, cap>>
poll == <<ppc, update, fds, pending, result>>
callers == <<pc, res, served, epoch, held, budget>>
boot == <<started, starts>>
vars == <<vec, event_fd, waiting, cap, started, starts, ppc, update, fds, pending,
          result, pc, res, served, epoch, held, budget, invoked, last>>

\* ------------------------------------------------------- Registrations<N>

Fds(v) == {v[i].fd : i \in DOMAIN v}

\* iter().position(|reg| reg.fd == fd) / iter_mut().find(..): first match, 0 if none.
position(v, fd) ==
    IF \E i \in DOMAIN v : v[i].fd = fd
    THEN CHOOSE i \in DOMAIN v : v[i].fd = fd /\ \A j \in 1..(i-1) : v[j].fd # fd
    ELSE 0

\* Mutant of swap_remove: the last element is dropped, whatever the index.
swap_remove_last(v, i) == SubSeq(v, 1, Len(v) - 1)

\* heapless::Vec::swap_remove: the last element takes the removed one's place.
swap_remove(v, i) ==
    IF i = Len(v) THEN SubSeq(v, 1, Len(v) - 1)
    ELSE [SubSeq(v, 1, Len(v) - 1) EXCEPT ![i] = v[Len(v)]]

\* Mutant of register: the duplicate check is missing.
register_no_duplicate_check(v, efd, n, fd) ==
    IF fd < 0 \/ fd \in efd THEN [vec |-> v, res |-> "InvalidInput"]
    ELSE IF fd >= FD_SETSIZE THEN [vec |-> v, res |-> "InvalidInput"]
    ELSE IF Len(v) >= n THEN [vec |-> v, res |-> "OutOfMemory"]
    ELSE [vec |-> Append(v, NewRegistration(fd)), res |-> "Ok"]

\* Mutant of register: the capacity check comes first.
register_capacity_first(v, efd, n, fd) ==
    IF Len(v) >= n THEN [vec |-> v, res |-> "OutOfMemory"]
    ELSE IF fd < 0 \/ fd \in efd THEN [vec |-> v, res |-> "InvalidInput"]
    ELSE IF fd >= FD_SETSIZE THEN [vec |-> v, res |-> "InvalidInput"]
    ELSE IF \E i \in DOMAIN v : v[i].fd = fd THEN [vec |-> v, res |-> "InvalidInput"]
    ELSE [vec |-> Append(v, NewRegistration(fd)), res |-> "Ok"]

\* Mutant of register: the check against FD_SETSIZE is missing.
register_no_range_check(v, efd, n, fd) ==
    IF fd < 0 \/ fd \in efd THEN [vec |-> v, res |-> "InvalidInput"]
    ELSE IF \E i \in DOMAIN v : v[i].fd = fd THEN [vec |-> v, res |-> "InvalidInput"]
    ELSE IF Len(v) >= n THEN [vec |-> v, res |-> "OutOfMemory"]
    ELSE [vec |-> Append(v, NewRegistration(fd)), res |-> "Ok"]

\* Registrations::register, with heapless::Vec::push failing on a full vector.
register(v, efd, n, fd) ==
    IF fd < 0 \/ fd \in efd THEN [vec |-> v, res |-> "InvalidInput"]
    ELSE IF fd >= FD_SETSIZE THEN [vec |-> v, res |-> "InvalidInput"]
    ELSE IF \E i \in DOMAIN v : v[i].fd = fd THEN [vec |-> v, res |-> "InvalidInput"]
    ELSE IF Len(v) >= n THEN [vec |-> v, res |-> "OutOfMemory"]
    ELSE [vec |-> Append(v, NewRegistration(fd)), res |-> "Ok"]

\* Registrations::deregister
deregister(v, fd) ==
    LET index == position(v, fd) IN
    IF index = 0 THEN [vec |-> v, res |-> "NotFound"]
    ELSE [vec |-> swap_remove(v, index), res |-> "Ok"]

\* Mutant of set: the event's armed bit is left as it is.
set_keeps_armed(v, fd, event, waker) ==
    LET index == position(v, fd) IN
    IF index = 0 THEN [vec |-> v, res |-> "NotFound", woke |-> <<>>]
    ELSE LET prev == v[index].wakers[event]
         IN [vec |-> [v EXCEPT ![index].wakers[event] = {waker}],
             res |-> "Ok",
             woke |-> IF \E p \in prev : ~will_wake(p, waker)
                      THEN <<[fd |-> fd, ev |-> event, wk |-> CHOOSE p \in prev : TRUE]>>
                      ELSE <<>>]

\* Registrations::set: woke is the sequence of wakers it invokes.
set(v, fd, event, waker) ==
    LET index == position(v, fd) IN
    IF index = 0 THEN [vec |-> v, res |-> "NotFound", woke |-> <<>>]
    ELSE LET prev == v[index].wakers[event]
             reg == [v[index] EXCEPT !.events = @ \ {event},
                                     !.wakers[event] = {waker}]
         IN [vec |-> [v EXCEPT ![index] = reg],
             res |-> "Ok",
             woke |-> IF \E p \in prev : ~will_wake(p, waker)
                      THEN <<[fd |-> fd, ev |-> event, wk |-> CHOOSE p \in prev : TRUE]>>
                      ELSE <<>>]

\* Registrations::fetch
fetch(v, fd, event) ==
    LET index == position(v, fd) IN
    IF index = 0 THEN [vec |-> v, res |-> "NotFound"]
    ELSE [vec |-> [v EXCEPT ![index].events = @ \ {event}],
          res |-> IF event \in v[index].events THEN "OkTrue" ELSE "OkFalse"]

\* Mutant of fetch_or_set: the waker is stored whatever fetch returned.
fetch_or_set_always_arms(v, fd, event, waker) ==
    LET f == fetch(v, fd, event) IN
    IF f.res = "NotFound" THEN [vec |-> v, res |-> "NotFound", woke |-> <<>>]
    ELSE LET s == set(f.vec, fd, event, waker) IN
         [vec |-> s.vec, res |-> f.res, woke |-> s.woke]

\* The closure of Reactor::fetch_or_set.
fetch_or_set(v, fd, event, waker) ==
    LET f == fetch(v, fd, event) IN
    IF f.res = "NotFound" THEN [vec |-> v, res |-> "NotFound", woke |-> <<>>]
    ELSE IF f.res = "OkTrue" THEN [vec |-> f.vec, res |-> "OkTrue", woke |-> <<>>]
    ELSE LET s == set(f.vec, fd, event, waker) IN
         [vec |-> s.vec, res |-> IF s.res = "Ok" THEN "OkFalse" ELSE s.res,
          woke |-> s.woke]

\* Mutant of update_slot: the waker is woken by reference and stays stored.
update_slot_keeps_waker(st, i, event, bits) ==
    IF st.vec[i].fd \in bits[event]
    THEN [vec |-> [st.vec EXCEPT ![i].events = @ \cup {event}],
          woke |-> IF st.vec[i].wakers[event] # {}
                   THEN Append(st.woke, [fd |-> st.vec[i].fd, ev |-> event,
                                         wk |-> CHOOSE w \in st.vec[i].wakers[event] : TRUE])
                   ELSE st.woke]
    ELSE st

\* The inner loop body of update_events for one registration and one event.
update_slot(st, i, event, bits) ==
    IF st.vec[i].fd \in bits[event]
    THEN [vec |-> [st.vec EXCEPT ![i].events = @ \cup {event},
                                 ![i].wakers[event] = {}],
          woke |-> IF st.vec[i].wakers[event] # {}
                   THEN Append(st.woke, [fd |-> st.vec[i].fd, ev |-> event,
                                         wk |-> CHOOSE w \in st.vec[i].wakers[event] : TRUE])
                   ELSE st.woke]
    ELSE st

\* Registrations::update_events after consume_notification: positions i..Len,
\* both events of each in EnumSet::ALL order.  bits = [Read |-> set, Write |-> set].
RECURSIVE update_from(_, _, _)
update_from(st, i, bits) ==
    IF i > Len(st.vec) THEN st
    ELSE update_from(update_slot(update_slot(st, i, EventOrder[1], bits),
                                 i, EventOrder[2], bits),
                     i + 1, bits)

update_events(v, bits) == update_from([vec |-> v, woke |-> <<>>], 1, bits)

\* Registrations::set_fds: the bitsets and the maximum descriptor (an Option).
set_fds(v, efd) ==
    LET all == efd \cup Fds(v) IN
    [fds |-> [e \in Event |->
                 (IF e = "Read" THEN efd ELSE {})
                 \cup {v[i].fd : i \in {j \in DOMAIN v : v[j].wakers[e] # {}}}],
     max |-> {m \in all : \A x \in all : x <= m}]

\* The descriptor eventfd() may return: any number not open in the process.
\* A registered descriptor belongs to its caller, who may have closed it
\* without deregistering it, so its number can come back; and with FD_SETSIZE
\* descriptors open the number is FD_SETSIZE or more (one such value here).
EventFdCandidates == 0 .. FD_SETSIZE

\* The descriptors the fd_set bitmaps have a bit for.
InRange(fd) == fd >= 0 /\ fd < FD_SETSIZE

\* ----------------------------------------------- table-level specification
\* Registrations<N> exercised method by method, as a unit test drives it.

\* late counts the calls made after the poll thread has ended.
NoStarts == [calls |-> 0, inflight |-> 0, ok |-> 0, no |-> 0, err |-> 0, late |-> 0]

\* Fds::zero
NoBits == [e \in Event |-> {}]

NoCall == [op |-> "none", fd |-> -1, ev |-> "-", res |-> "-"]

TInit ==
    /\ vec = <<>>
    /\ event_fd = {}
    /\ waiting = 0
    /\ cap \in 1..(IF MaxCap < MAX_REGISTRATIONS THEN MaxCap ELSE MAX_REGISTRATIONS)
    /\ invoked = <<>>
    /\ last = NoCall
    /\ started = FALSE
    /\ starts = NoStarts
    /\ ppc = "none"
    /\ update = FALSE
    /\ fds = NoBits
    /\ pending = FALSE
    /\ result = "-"
    /\ pc = [t \in Threads |-> "idle"]
    /\ res = [t \in Threads |-> "-"]
    /\ served = [t \in Threads |-> 0]
    /\ epoch = [t \in Threads |-> "-"]
    /\ held = NoBits
    /\ budget = 0

TRegister(fd) ==
    LET r == register(vec, event_fd, cap, fd) IN
    /\ vec' = r.vec
    /\ invoked' = <<>>
    /\ last' = [op |-> "register", fd |-> fd, ev |-> "-", res |-> r.res]
    /\ UNCHANGED <<event_fd, waiting, cap, boot, poll, callers>>

TDeregister(fd) ==
    LET r == deregister(vec, fd) IN
    /\ vec' = r.vec
    /\ invoked' = <<>>
    /\ last' = [op |-> "deregister", fd |-> fd, ev |-> "-", res |-> r.res]
    /\ UNCHANGED <<event_fd, waiting, cap, boot, poll, callers>>

TSet(fd, event, waker) ==
    LET r == set(vec, fd, event, waker) IN
    /\ vec' = r.vec
    /\ invoked' = r.woke
    /\ last' = [op |-> "set", fd |-> fd, ev |-> event, res |-> r.res]
    /\ UNCHANGED <<event_fd, waiting, cap, boot, poll, callers>>

TFetch(fd, event) ==
    LET r == fetch(vec, fd, event) IN
    /\ vec' = r.vec
    /\ invoked' = <<>>
    /\ last' = [op |-> "fetch", fd |-> fd, ev |-> event, res |-> r.res]
    /\ UNCHANGED <<event_fd, waiting, cap, boot, poll, callers>>

TFetchOrSet(fd, event, waker) ==
    LET r == fetch_or_set(vec, fd, event, waker) IN
    /\ vec' = r.vec
    /\ invoked' = r.woke
    /\ last' = [op |-> "fetch_or_set", fd |-> fd, ev |-> event, res |-> r.res]
    /\ UNCHANGED <<event_fd, waiting, cap, boot, poll, callers>>

\* update_events with the bitsets a select() call left behind.
TUpdateEvents(bits) ==
    LET r == update_events(vec, bits) IN
    /\ vec' = r.vec
    /\ invoked' = r.woke
    /\ last' = [op |-> "update_events", fd |-> -1, ev |-> "-", res |-> "Ok"]
    /\ UNCHANGED <<event_fd, waiting, cap, boot, poll, callers>>

\* Registrations::create_notification
TCreateNotification ==
    /\ IF event_fd = {}
       THEN /\ \E n \in EventFdCandidates : event_fd' = {n}
            /\ last' = [op |-> "create_notification", fd |-> -1, ev |-> "-", res |-> "OkTrue"]
       ELSE /\ event_fd' = event_fd
            /\ last' = [op |-> "create_notification", fd |-> -1, ev |-> "-", res |-> "OkFalse"]
    /\ invoked' = <<>>
    /\ UNCHANGED <<vec, waiting, cap, boot, poll, callers>>

\* Registrations::destroy_notification
TDestroyNotification ==
    /\ event_fd' = {}
    /\ last' = [op |-> "destroy_notification", fd |-> -1, ev |-> "-",
                res |-> IF event_fd # {} THEN "OkTrue" ELSE "OkFalse"]
    /\ invoked' = <<>>
    /\ UNCHANGED <<vec, waiting, cap, boot, poll, callers>>

BitSets == [Event -> SUBSET (0 .. FD_SETSIZE - 1)]

\* Descriptors the lookups are called with: the representable ones and one
\* that is never registered.
LookupFds == 0 .. FD_SETSIZE

TNext ==
    \/ \E fd \in FdInputs : TRegister(fd)
    \/ \E fd \in LookupFds : TDeregister(fd)
    \/ \E fd \in LookupFds, e \in Event, w \in Wakers : TSet(fd, e, w)
    \/ \E fd \in LookupFds, e \in Event : TFetch(fd, e)
    \/ \E fd \in LookupFds, e \in Event, w \in Wakers : TFetchOrSet(fd, e, w)
    \/ \E bits \in BitSets : TUpdateEvents(bits)
    \/ TCreateNotification
    \/ TDestroyNotification

TSpec == TInit /\ [][TNext]_vars

\* --------------------------------------------------------------- Reactor<N>
\* REACTOR: Reactor<MAX_REGISTRATIONS>, its callers and its poll thread.

UserFds == 0..MaxUserFd

\* The table operation `f` a public operation hands to modify.
Ops ==
    [op : {"register", "deregister"}, fd : UserFds, ev : {"-"}, wk : {{}}]
    \cup [op : {"fetch"}, fd : UserFds, ev : Event, wk : {{}}]
    \cup [op : {"fetch_or_set"}, fd : UserFds, ev : Event, wk : {{w} : w \in Wakers}]

run_op(o, v, efd, n) ==
    CASE o.op = "register" -> register(v, efd, n, o.fd) @@ [woke |-> <<>>]
      [] o.op = "deregister" -> deregister(v, o.fd) @@ [woke |-> <<>>]
      [] o.op = "fetch" -> fetch(v, o.fd, o.ev) @@ [woke |-> <<>>]
      [] o.op = "fetch_or_set" ->
            fetch_or_set(v, o.fd, o.ev, CHOOSE w \in o.wk : TRUE)

Init ==
    /\ vec = <<>>
    /\ event_fd = {}
    /\ waiting = 0
    /\ cap = MAX_REGISTRATIONS
    /\ started = FALSE
    /\ starts = NoStarts
    /\ ppc = "none"
    /\ update = FALSE
    /\ fds = NoBits
    /\ pending = FALSE
    /\ result = "-"
    /\ pc = [t \in Threads |-> "idle"]
    /\ res = [t \in Threads |-> "-"]
    /\ served = [t \in Threads |-> 0]
    /\ epoch = [t \in Threads |-> "-"]
    /\ held = NoBits
    /\ budget = MaxCalls
    /\ invoked = <<>>
    /\ last = NoCall

\* Mutant of StartSwap: a call that finds the poll thread ended starts again.
StartSwap_restarts_ended ==
    /\ starts.calls < NumStarts
    /\ started' = TRUE
    /\ LET n == IF ppc \in {"dead", "panicked"} THEN 1 ELSE 0 IN
       starts' = IF started /\ n = 0
                 THEN [starts EXCEPT !.calls = @ + 1, !.no = @ + 1, !.late = @ + n]
                 ELSE [starts EXCEPT !.calls = @ + 1, !.inflight = @ + 1, !.late = @ + n]
    /\ invoked' = <<>>
    /\ UNCHANGED <<regs, poll, callers, last>>

\* Reactor::start up to the swap: a call that finds the flag set returns
\* Ok(false); the one that set it goes on to spawn the thread.
StartSwap ==
    /\ starts.calls < NumStarts
    /\ started' = TRUE
    /\ LET n == IF ppc \in {"dead", "panicked"} THEN 1 ELSE 0 IN
       starts' = IF started
                 THEN [starts EXCEPT !.calls = @ + 1, !.no = @ + 1, !.late = @ + n]
                 ELSE [starts EXCEPT !.calls = @ + 1, !.inflight = @ + 1, !.late = @ + n]
    /\ invoked' = <<>>
    /\ UNCHANGED <<regs, poll, callers, last>>

\* Reactor::start: thread::Builder::spawn succeeded, the call returns Ok(true).
StartSpawn ==
    /\ starts.inflight > 0
    /\ starts' = [starts EXCEPT !.inflight = @ - 1, !.ok = @ + 1]
    /\ ppc' = "create"
    /\ invoked' = <<>>
    /\ UNCHANGED <<regs, started, update, fds, pending, result, callers, last>>

\* Reactor::start: spawn failed, `?` returns the error; `started` stays set.
StartSpawnFail ==
    /\ starts.inflight > 0
    /\ starts' = [starts EXCEPT !.inflight = @ - 1, !.err = @ + 1]
    /\ invoked' = <<>>
    /\ UNCHANGED <<regs, started, poll, callers, last>>

\* Reactor::run, first statement: create_notification under the lock, with
\* eventfd() returning n.
RunCreate(n) ==
    /\ ppc = "create"
    /\ IF event_fd = {}
       THEN event_fd' = {n} /\ ppc' = "loop" /\ result' = result
       ELSE event_fd' = event_fd /\ ppc' = "dead" /\ result' = "AlreadyExists"
    /\ invoked' = <<>>
    /\ UNCHANGED <<vec, waiting, cap, boot, update, fds, pending, callers, last>>

\* Reactor::run: eventfd() failed, run returns the error and the thread's
\* unwrap panics.
RunCreateFail ==
    /\ ppc = "create"
    /\ event_fd = {}
    /\ ppc' = "dead"
    /\ result' = "EventFdError"
    /\ invoked' = <<>>
    /\ UNCHANGED <<regs, boot, update, fds, pending, callers, last>>

\* Mutant of notify_all: the broadcast is forgotten.
notify_all_forgotten(p) == p

\* Condvar::notify_all
notify_all(p) == [t \in Threads |-> IF p[t] = "blocked" THEN "woken" ELSE p[t]]

\* Reactor::run, one loop iteration up to the select call: the closure given
\* to apply (update_events unless first, then set_fds), then apply's
\* `waiting = 0` and notify_all, all in one critical section.
\* consume_notification reads the eventfd, which resets its counter; an empty
\* counter gives EAGAIN, taken for success.  `fds` is first read here after
\* the first set_fds has written it (update is FALSE before).
RunApply ==
    /\ ppc = "loop"
    /\ \A n \in event_fd : InRange(n)
    /\ LET folded == IF update THEN update_events(vec, fds)
                     ELSE [vec |-> vec, woke |-> <<>>]
           built == set_fds(folded.vec, event_fd)
       IN /\ vec' = folded.vec
          /\ invoked' = folded.woke
          /\ pending' = IF update /\ event_fd # {} THEN FALSE ELSE pending
          /\ fds' = built.fds
          /\ held' = set_fds(folded.vec, {}).fds
          /\ ppc' = IF built.max = {} THEN "dead" ELSE "select"
    /\ update' = TRUE
    /\ waiting' = 0
    /\ pc' = notify_all(pc)
    /\ served' = [t \in Threads |->
                    IF pc[t] = "idle" THEN 0
                    ELSE IF served[t] < 2 THEN served[t] + 1 ELSE 2]
    /\ UNCHANGED <<event_fd, cap, boot, result, res, epoch, budget, last>>

\* Reactor::run, the same critical section when the eventfd's number is
\* FD_SETSIZE or more: set_fds passes it to sys::FD_SET, which indexes the
\* bitmap's array with it and panics.  The guard is dropped by the unwinding,
\* so the mutex is poisoned; `waiting` is not reset and nobody is notified.
RunApplyPanic ==
    /\ ppc = "loop"
    /\ \E n \in event_fd : ~InRange(n)
    /\ ppc' = "panicked"
    /\ invoked' = <<>>
    /\ UNCHANGED <<regs, boot, update, fds, pending, result, callers, last>>

\* What select() may leave in the bitsets when it returns: a nonempty subset
\* of the interest bits, the eventfd's bit exactly when its counter is nonzero.
SelectResults ==
    {b \in [Event -> SUBSET (0 .. FD_SETSIZE - 1)] :
        /\ \A e \in Event : b[e] \subseteq fds[e]
        /\ \A n \in event_fd \cap fds["Read"] : n \in b["Read"] <=> pending
        /\ \E e \in Event : b[e] # {}}

\* sys::select returned Ok.
RunSelect(b) ==
    /\ ppc = "select"
    /\ b \in SelectResults
    /\ fds' = b
    /\ ppc' = "loop"
    /\ invoked' = <<>>
    /\ UNCHANGED <<regs, boot, update, pending, result, callers, last>>

\* sys::select failed with an error other than EINTR: the loop breaks.
RunSelectFail ==
    /\ ppc = "select"
    /\ ppc' = "destroy"
    /\ result' = "SelectError"
    /\ invoked' = <<>>
    /\ UNCHANGED <<regs, boot, update, fds, pending, callers, last>>

\* Mutant of RunDestroy: the thread ends without destroy_notification.
RunDestroy_keeps_channel ==
    /\ ppc = "destroy"
    /\ ppc' = "dead"
    /\ invoked' = <<>>
    /\ UNCHANGED <<regs, boot, update, fds, pending, result, callers, last>>

\* Mutant of RunDestroy: the exiting thread resets the counter and wakes the
\* callers, as apply does.
RunDestroy_releases_callers ==
    /\ ppc = "destroy"
    /\ event_fd' = {}
    /\ pending' = FALSE
    /\ ppc' = "dead"
    /\ waiting' = 0
    /\ pc' = [t \in Threads |-> IF pc[t] = "blocked" THEN "woken" ELSE pc[t]]
    /\ invoked' = <<>>
    /\ UNCHANGED <<vec, cap, boot, update, fds, result, res, served, epoch, held, budget,
                   last>>

\* Reactor::run after the loop: destroy_notification (close() of the eventfd
\* the reactor owns succeeds), then run returns `result` and the thread's
\* unwrap of it panics.
RunDestroy ==
    /\ ppc = "destroy"
    /\ event_fd' = {}
    /\ pending' = FALSE
    /\ ppc' = "dead"
    /\ invoked' = <<>>
    /\ UNCHANGED <<vec, waiting, cap, boot, update, fds, result, callers, last>>

\* The registrations of `held` that a call leaves in place: deregister removes
\* fd's, and a register that succeeds creates a new one.
StillHeld(o) ==
    IF \/ o.op = "deregister"
       \/ o.op = "register" /\ register(vec, event_fd, cap, o.fd).res = "Ok"
    THEN [e \in Event |-> held[e] \ {o.fd}]
    ELSE held

\* Mutant of ModifyCall: the notification channel is not signalled.
ModifyCall_no_notify(t, o) ==
    /\ pc[t] = "idle"
    /\ ppc # "panicked"
    /\ LET r == run_op(o, vec, event_fd, cap) IN
          /\ vec' = r.vec
          /\ invoked' = r.woke
          /\ res' = [res EXCEPT ![t] = r.res]
    /\ waiting' = waiting + 1
    /\ pc' = [pc EXCEPT ![t] = "blocked"]
    /\ served' = [served EXCEPT ![t] = 0]
    /\ held' = StillHeld(o)
    /\ UNCHANGED <<event_fd, cap, boot, poll, last>>

\* Reactor::modify from the lock to the first wait on the condition variable:
\* `waiting += 1`, the table operation, notify, and wait_while, whose
\* predicate holds (waiting was just incremented), so the caller blocks.
\* notify writes to the eventfd when there is one; the write adds to a counter
\* that saturates with EAGAIN, which the syscall wrapper takes for success, so
\* notify's `?` never returns early.
ModifyCall(t, o) ==
    /\ pc[t] = "idle"
    /\ ppc # "panicked"
    /\ LET r == run_op(o, vec, event_fd, cap) IN
          /\ vec' = r.vec
          /\ invoked' = r.woke
          /\ res' = [res EXCEPT ![t] = r.res]
    /\ waiting' = waiting + 1
    /\ pending' = IF event_fd # {} THEN TRUE ELSE pending
    /\ pc' = [pc EXCEPT ![t] = "blocked"]
    /\ served' = [served EXCEPT ![t] = 0]
    /\ held' = StillHeld(o)
    /\ UNCHANGED <<event_fd, cap, boot, ppc, update, fds, result, last>>

\* Condvar::wait_while may wake without a notification.
SpuriousWake(t) ==
    /\ pc[t] = "blocked"
    /\ pc' = [pc EXCEPT ![t] = "woken"]
    /\ invoked' = <<>>
    /\ UNCHANGED <<regs, boot, poll, res, served, epoch, held, budget, last>>

\* Mutant of ModifyWake: any wake-up ends the wait, the predicate is not tested
\* (Condvar::wait in place of wait_while).
ModifyWake_unconditional(t) ==
    /\ pc[t] = "woken"
    /\ ppc # "panicked"
    /\ pc' = [pc EXCEPT ![t] = "idle"]
    /\ res' = [res EXCEPT ![t] = "-"]
    /\ served' = [served EXCEPT ![t] = 0]
    /\ epoch' = [epoch EXCEPT ![t] = "-"]
    /\ invoked' = <<>>
    /\ UNCHANGED <<vec, event_fd, waiting, cap, started, starts, ppc, update, fds,
                   pending, result, held, budget, last>>

\* wait_while after a wake-up: the mutex is taken again and the predicate
\* `waiting > 0` tested; the caller waits again or modify returns `result`.
ModifyWake(t) ==
    /\ pc[t] = "woken"
    /\ ppc # "panicked"
    /\ IF waiting > 0
       THEN /\ pc' = [pc EXCEPT ![t] = "blocked"]
            /\ UNCHANGED <<res, served, epoch>>
       ELSE /\ pc' = [pc EXCEPT ![t] = "idle"]
            /\ res' = [res EXCEPT ![t] = "-"]
            /\ served' = [served EXCEPT ![t] = 0]
            /\ epoch' = [epoch EXCEPT ![t] = "-"]
    /\ invoked' = <<>>
    /\ UNCHANGED <<regs, boot, poll, held, budget, last>>

\* A modify call of the reactor's callers, with the moment it was issued
\* recorded.
Modify(t, o) ==
    /\ ModifyCall(t, o)
    /\ epoch' = [epoch EXCEPT ![t] = IF ppc \in {"none", "create"} THEN "before"
                                      ELSE IF ppc = "dead" THEN "after"
                                      ELSE "during"]
    /\ UNCHANGED budget

\* Reactor::modify on a poisoned mutex: lock().unwrap() of a new call, or the
\* unwrap of wait_while's result after a wake-up, panics in the caller.
ModifyPoisoned(t) ==
    /\ pc[t] \in {"idle", "woken"}
    /\ ppc = "panicked"
    /\ pc' = [pc EXCEPT ![t] = "panicked"]
    /\ invoked' = <<>>
    /\ UNCHANGED <<regs, boot, poll, res, served, epoch, held, budget, last>>

Next ==
    \/ StartSwap
    \/ StartSpawn
    \/ StartSpawnFail
    \/ \E n \in EventFdCandidates : RunCreate(n)
    \/ RunCreateFail
    \/ RunApply
    \/ RunApplyPanic
    \/ \E b \in SelectResults : RunSelect(b)
    \/ RunSelectFail
    \/ RunDestroy
    \/ \E t \in Threads, o \in Ops : Modify(t, o)
    \/ \E t \in Threads : SpuriousWake(t)
    \/ \E t \in Threads : ModifyWake(t)
    \/ \E t \in Threads : ModifyPoisoned(t)

Spec == Init /\ [][Next]_vars

\* ------------------------------------------------- finite workload, fairness
\* The poll thread stays alive (no spawn, eventfd or select failure, an
\* eventfd below FD_SETSIZE) and callers issue MaxCalls modify calls in all.
\* Every thread that can run
\* eventually does; select returns once the eventfd is readable.

LiveModify(t, o) ==
    /\ budget > 0
    /\ budget' = budget - 1
    /\ ModifyCall(t, o)
    /\ UNCHANGED epoch

RunCreateInRange == \E n \in 0 .. FD_SETSIZE - 1 : RunCreate(n)

RunSelectNotified == pending /\ \E b \in SelectResults : RunSelect(b)

LiveNext ==
    \/ StartSwap
    \/ StartSpawn
    \/ RunCreateInRange
    \/ RunApply
    \/ \E b \in SelectResults : RunSelect(b)
    \/ \E t \in Threads, o \in Ops : LiveModify(t, o)
    \/ \E t \in Threads : SpuriousWake(t)
    \/ \E t \in Threads : ModifyWake(t)

Fairness ==
    /\ WF_vars(StartSwap)
    /\ WF_vars(StartSpawn)
    /\ WF_vars(RunCreateInRange)
    /\ WF_vars(RunApply)
    /\ WF_vars(RunSelectNotified)
    /\ \A t \in Threads : WF_vars(ModifyWake(t))

LiveSpec == Init /\ [][LiveNext]_vars /\ Fairness

\* ------------------------------------------------ open workload, fairness
\* The same live reactor with callers that may go on calling for ever.

FairNext ==
    \/ StartSwap
    \/ StartSpawn
    \/ RunCreateInRange
    \/ RunApply
    \/ \E b \in SelectResults : RunSelect(b)
    \/ \E t \in Threads, o \in Ops : Modify(t, o)
    \/ \E t \in Threads : SpuriousWake(t)
    \/ \E t \in Threads : ModifyWake(t)

FairSpec == Init /\ [][FairNext]_vars /\ Fairness

\* ------------------------------------------------------------------ claims

\* C1: with the poll thread alive and fair scheduling, every modify call
\* issued by any of several concurrent callers eventually returns, and at the
\* moment a caller returns from modify the counter `waiting` is zero.
\* (It holds of LiveSpec, the finite workload; FairSpec, where callers may go
\* on calling, starves a caller.)
C1_ModifyReturns ==
    /\ \A t \in Threads : (pc[t] # "idle") ~> (pc[t] = "idle")
    /\ [][\A t \in Threads :
            (pc[t] # "idle" /\ pc'[t] = "idle") => (waiting = 0 /\ waiting' = 0)]_vars

\* The waker slot and the armed bit of (fd, event); an unregistered fd has neither.
Slot(v, fd, e) == IF position(v, fd) = 0 THEN {} ELSE v[position(v, fd)].wakers[e]
Armed(v, fd, e) == position(v, fd) # 0 /\ e \in v[position(v, fd)].events

CountIn(seq, x) == Cardinality({k \in DOMAIN seq : seq[k] = x})

\* The step is a caller returning from modify.
Returns(t) == pc[t] # "idle" /\ pc'[t] = "idle"

\* The step is the poll thread's critical section: it folds the results of the
\* previous select (none on the first iteration), rebuilds the bitsets from
\* the table as it then stands, resets the counter, wakes every blocked caller
\* and goes on to select with those bitsets.
FoldRebuildReset ==
    /\ ppc = "loop"
    /\ vec' = IF update THEN update_events(vec, fds).vec ELSE vec
    /\ fds' = set_fds(vec', event_fd').fds
    /\ waiting' = 0
    /\ \A t \in Threads : pc[t] = "blocked" => pc'[t] = "woken"
    /\ ppc' = "select"

\* C2: a modify call never returns before the poll thread has, after the
\* caller's table operation, folded the previous poll results and rebuilt the
\* bitsets from the table; the counter reset and the broadcast happen in that
\* same critical section; and the blocking poll call that follows uses the
\* rebuilt bitsets unchanged.
C2_ReturnAfterRebuild ==
    /\ [][\A t \in Threads : Returns(t) => served[t] >= 1]_vars
    /\ [][(\E t \in Threads : served'[t] > served[t]) => FoldRebuildReset]_vars
    /\ [][(waiting > 0 /\ waiting' = 0) => FoldRebuildReset]_vars
    /\ [][(ppc = "select" /\ ppc' = "select") => fds' = fds]_vars

\* A caller is about to return: woken, the counter reset, after one apply
\* section that rebuilt the bitsets with its fetch_or_set waker in them.
C2_Witness ==
    \E t \in Threads :
        /\ pc[t] = "woken" /\ served[t] = 1 /\ waiting = 0
        /\ res[t] = "OkFalse"
        /\ ppc = "select"
        /\ \E e \in Event : fds[e] \cap Fds(vec) # {}

\* C3 (as claimed): once the first apply section that follows a caller's
\* table operation has reset the counter and broadcast the wake, that caller
\* returns: when it runs again it is never put back to wait.
C3_ReleasedByNextIteration ==
    [][\A t \in Threads :
         (pc[t] = "woken" /\ served[t] >= 1) => pc'[t] # "blocked"]_vars

\* The poll thread holds results of a select call that reported (fd, e) while
\* the slot holds waker w: the descriptor became ready and was observed.
ObservedReady(fd, e, w) ==
    ppc = "loop" /\ update /\ fd \in fds[e] /\ Slot(vec, fd, e) = {w}

Range(v) == {v[i] : i \in DOMAIN v}

\* Every registration but fd's, and the other event of fd's, are untouched.
OnlySlotTouched(v, w, fd, e) ==
    /\ Len(w) = Len(v)
    /\ \A i \in DOMAIN v :
         IF v[i].fd = fd
         THEN /\ w[i].fd = fd
              /\ \A o \in Event \ {e} :
                   w[i].wakers[o] = v[i].wakers[o] /\ (o \in w[i].events <=> o \in v[i].events)
         ELSE w[i] = v[i]

\* C5: fetch_or_set on a registered descriptor whose event is armed returns
\* true, clears the armed bit, does not store the given waker, and leaves the
\* (fd, event) waker slot empty.
C5_FetchOrSetArmed ==
    [][\A fd \in {last'.fd}, e \in {last'.ev} \cap Event, w \in Wakers :
         (last'.op = "fetch_or_set" /\ TFetchOrSet(fd, e, w) /\ Armed(vec, fd, e))
         => /\ last'.res = "OkTrue"
            /\ ~Armed(vec', fd, e)
            /\ Slot(vec', fd, e) = {}
            /\ invoked' = <<>>
            /\ OnlySlotTouched(vec, vec', fd, e)]_vars

\* fetch_or_set has just returned true for an event whose other slot holds a waker.
C5_Witness ==
    /\ last.op = "fetch_or_set" /\ last.res = "OkTrue"
    /\ Slot(vec, last.fd, last.ev) = {}
    /\ \E o \in Event : Slot(vec, last.fd, o) # {}

\* What arming (fd, e) with waker w must do to the table and which waker it
\* must invoke: the previous one if it belongs to another task, else none.
ArmedWith(fd, e, w) ==
    /\ ~Armed(vec', fd, e)
    /\ Slot(vec', fd, e) = {w}
    /\ OnlySlotTouched(vec, vec', fd, e)
    /\ IF \E p \in Slot(vec, fd, e) : p[1] # w[1]
       THEN \E p \in Slot(vec, fd, e) : invoked' = <<[fd |-> fd, ev |-> e, wk |-> p]>>
       ELSE invoked' = <<>>

\* C6: arming a waker for a (descriptor, event) slot always clears the event's
\* armed bit and leaves the new waker stored; a previous waker that is not
\* equivalent to the new one is invoked during the operation; if it is
\* equivalent (same target) or the slot was empty, no waker is invoked.
C6_ArmWaker ==
    [][\A fd \in {last'.fd}, e \in {last'.ev} \cap Event, w \in Wakers :
         /\ (last'.op = "set" /\ TSet(fd, e, w) /\ fd \in Fds(vec))
            => (last'.res = "Ok" /\ ArmedWith(fd, e, w))
         /\ (/\ last'.op = "fetch_or_set" /\ TFetchOrSet(fd, e, w)
             /\ fd \in Fds(vec) /\ ~Armed(vec, fd, e))
            => (last'.res = "OkFalse" /\ ArmedWith(fd, e, w))]_vars

\* set has just replaced another task's waker and invoked it.
C6_Witness ==
    /\ last.op = "set" /\ last.res = "Ok"
    /\ Len(invoked) = 1
    /\ \E w \in Slot(vec, last.fd, last.ev) : w[1] # invoked[1].wk[1]

\* The descriptors register must refuse with InvalidInput.
RegisterRejects(fd) ==
    fd < 0 \/ fd >= FD_SETSIZE \/ fd \in event_fd \/ fd \in Fds(vec)

\* C7: register(fd) fails with InvalidInput when fd is negative, at or above
\* the bitset bound, the notification channel's descriptor or already
\* registered, and then leaves the table unchanged (a duplicate's existing
\* registration keeps its armed bits and wakers); otherwise, below capacity,
\* it appends a registration with no armed bit and no waker.
C7_RegisterValidation ==
    [][\A fd \in {last'.fd} :
         (last'.op = "register" /\ TRegister(fd)) =>
           IF RegisterRejects(fd)
           THEN last'.res = "InvalidInput" /\ vec' = vec /\ event_fd' = event_fd
           ELSE Len(vec) < cap =>
                  /\ last'.res = "Ok"
                  /\ vec' = Append(vec, [fd |-> fd, events |-> {},
                                         wakers |-> [e \in Event |-> {}]])]_vars

\* A duplicate register has just been refused; the existing registration still
\* has an armed bit and a stored waker.
C7_Witness ==
    /\ last.op = "register" /\ last.res = "InvalidInput"
    /\ \E i \in DOMAIN vec :
         /\ vec[i].fd = last.fd
         /\ vec[i].events # {}
         /\ \E e \in Event : vec[i].wakers[e] # {}

\* C8 (as claimed): with the table holding N registrations, a further register
\* call returns OutOfMemory (ResourceExhausted) and leaves the table as it is;
\* the table never holds more than N.
C8_FullTableExhausted ==
    /\ [][\A fd \in {last'.fd} :
            (last'.op = "register" /\ TRegister(fd) /\ Len(vec) = cap)
            => (last'.res = "OutOfMemory" /\ vec' = vec)]_vars
    /\ [](Len(vec) <= cap)

\* C8 (amended): with the table holding N registrations, a further register
\* call fails and leaves the table as it is: with InvalidInput for a
\* descriptor that validation refuses, with OutOfMemory only for one that
\* passes it; the table never holds more than N.
C8_FullTableRejects ==
    /\ [][\A fd \in {last'.fd} :
            (last'.op = "register" /\ TRegister(fd) /\ Len(vec) = cap)
            => /\ vec' = vec
               /\ last'.res = IF RegisterRejects(fd) THEN "InvalidInput"
                              ELSE "OutOfMemory"]_vars
    /\ [](Len(vec) <= cap)

\* A register call on a full table has just been refused with OutOfMemory.
C8_Witness ==
    /\ last.op = "register" /\ last.res = "OutOfMemory"
    /\ Len(vec) = cap

\* C9: deregister of a registered descriptor removes exactly that
\* registration; deregister, fetch and fetch_or_set on an unregistered
\* descriptor return NotFound and leave the table unchanged; so a fetch that
\* follows register(fd) and deregister(fd) returns NotFound.
C9_DeregisterAndNotFound ==
    [][/\ \A fd \in {last'.fd} :
            (last'.op = "deregister" /\ TDeregister(fd)) =>
              IF fd \in Fds(vec)
              THEN /\ last'.res = "Ok"
                   /\ fd \notin Fds(vec')
                   /\ Len(vec') = Len(vec) - 1
                   /\ Range(vec') = {r \in Range(vec) : r.fd # fd}
              ELSE last'.res = "NotFound" /\ vec' = vec
       /\ \A fd \in {last'.fd}, e \in {last'.ev} \cap Event :
            (last'.op = "fetch" /\ TFetch(fd, e) /\ fd \notin Fds(vec))
            => (last'.res = "NotFound" /\ vec' = vec)
       /\ \A fd \in {last'.fd}, e \in {last'.ev} \cap Event, w \in Wakers :
            (last'.op = "fetch_or_set" /\ TFetchOrSet(fd, e, w) /\ fd \notin Fds(vec))
            => (last'.res = "NotFound" /\ vec' = vec /\ invoked' = <<>>)
       /\ \A e \in {last'.ev} \cap Event :
            (last.op = "deregister" /\ last.res = "Ok" /\ last'.op = "fetch"
             /\ TFetch(last.fd, e))
            => last'.res = "NotFound"]_vars

\* deregister has just removed the first of two registrations; the other one,
\* with its armed bit and waker, is still there.
C9_Witness ==
    /\ last.op = "deregister" /\ last.res = "Ok"
    /\ Len(vec) = 1
    /\ vec[1].events # {}
    /\ \E e \in Event : vec[1].wakers[e] # {}
    /\ vec[1].fd > last.fd

\* C10 (as claimed): once every start() call made has returned, exactly one
\* of them returned true and spawned the poll thread and every other returned
\* false; at most one poll thread ever exists.
C10_ExactlyOneStartSpawns ==
    /\ (starts.calls >= 1 /\ starts.inflight = 0)
         => (starts.ok = 1 /\ starts.no = starts.calls - 1)
    /\ starts.ok <= 1
    /\ (ppc # "none") => starts.ok = 1

\* C11: in every reachable state, after any sequence of register and
\* deregister calls, the descriptors of the live registrations are pairwise
\* distinct and each lies in 0 .. FD_SETSIZE - 1.
C11_DistinctInRange ==
    /\ \A i, j \in DOMAIN vec : i # j => vec[i].fd # vec[j].fd
    /\ \A i \in DOMAIN vec : vec[i].fd >= 0 /\ vec[i].fd < FD_SETSIZE

\* A register call has just filled the table with every representable
\* descriptor, the largest one in the first position.
C11_Witness ==
    /\ last.op = "register" /\ last.res = "Ok"
    /\ Len(vec) = FD_SETSIZE
    /\ vec[1].fd = FD_SETSIZE - 1
    /\ vec[Len(vec)].fd = last.fd

\* C12 (as claimed): in every reachable state, however register calls
\* interleave with the poll thread's creation of the notification channel, no
\* live registration's descriptor equals the notification channel's descriptor.
C12_NoRegistrationIsEventFd == event_fd \cap Fds(vec) = {}

\* C13 (as claimed): in every reachable state the notification channel exists
\* if and only if the poll thread is running, that is, the reactor has been
\* started and its poll thread has not terminated.
C13_ChannelIffRunning ==
    event_fd # {} <=> (started /\ ppc \notin {"dead", "panicked"})

\* C13 (amended): the notification channel exists exactly from the poll
\* thread's first step, which creates it, until the poll loop has exited and
\* destroyed it: it does not exist while the reactor is not started, while the
\* spawned thread has not yet taken its first step, or after the thread has
\* ended through the loop's exit; it exists throughout the poll loop, and a
\* poll thread that panics inside an iteration leaves it in place.
C13_ChannelWhilePolling ==
    event_fd # {} <=> ppc \in {"loop", "select", "destroy", "panicked"}

\* The poll loop has run, select has failed and the thread has ended: the
\* channel is gone.
C13_Witness == ppc = "dead" /\ update /\ event_fd = {} /\ starts.ok = 1

\* C14: when select fails with an error other than EINTR, the poll loop exits,
\* the notification channel is destroyed exactly once, the poll thread ends
\* with that same error, and the reactor stays stopped: no later start() call
\* spawns a poll thread or recreates the channel.
C14_PollFailureIsTerminal ==
    /\ [][(ppc = "select" /\ ppc' \notin {"select", "loop"})
            => (ppc' = "destroy" /\ result' = "SelectError" /\ event_fd' = event_fd)]_vars
    /\ [][(ppc = "destroy" /\ ppc' # "destroy")
            => (ppc' = "dead" /\ result' = result /\ event_fd # {} /\ event_fd' = {})]_vars
    /\ [][(event_fd # {} /\ event_fd' = {}) => ppc = "destroy"]_vars
    /\ [][ppc = "destroy" => (result = "SelectError" /\ result' = result)]_vars
    /\ [][ppc = "dead"
            => (ppc' = "dead" /\ event_fd' = {} /\ result' = result
                /\ starts'.ok = starts.ok /\ starts'.inflight = starts.inflight)]_vars

\* select has failed, the thread has ended with that error and the channel is
\* gone; a start() call made after that has returned false.
C14_Witness ==
    /\ ppc = "dead" /\ result = "SelectError" /\ event_fd = {}
    /\ starts.late = 1 /\ starts.no = 1 /\ starts.ok = 1 /\ starts.inflight = 0

\* A caller that issues a call once the poll thread has ended with an error
\* gets its table operation done and waits on the condition variable.
OrphanCallBlocks ==
    \A t \in Threads, o \in Ops :
        (ppc = "dead" /\ Modify(t, o)) =>
            /\ vec' = run_op(o, vec, event_fd, cap).vec
            /\ res'[t] = run_op(o, vec, event_fd, cap).res
            /\ waiting' = waiting + 1
            /\ pc'[t] = "blocked"

\* C15 (as claimed): once the poll thread has terminated from a fatal error,
\* every modify call pending at that moment and every modify call issued
\* afterwards performs its table operation and then blocks for ever: it never
\* returns and never crashes.
C15_PendingAndLaterBlockForever ==
    /\ [][OrphanCallBlocks]_vars
    /\ [][\A t \in Threads :
            (ppc = "dead" /\ pc[t] # "idle") => pc'[t] \in {"blocked", "woken"}]_vars

\* C15 (amended): once the poll thread has terminated from a fatal error the
\* counter is never reset again; every modify call issued afterwards, and
\* every pending call whose table operation came after the poll thread's last
\* counter reset, has done its table operation and never returns and never
\* crashes, and from the first such call on no pending call returns.  (A
\* pending call that the last iteration had released before the thread ended
\* returns if it re-tests the counter before another call increments it.)
C15_UnservedBlockForever ==
    /\ [][OrphanCallBlocks]_vars
    /\ [][ppc = "dead" => waiting' >= waiting]_vars
    /\ [](\A t \in Threads :
            (ppc = "dead" /\ pc[t] # "idle" /\ (served[t] = 0 \/ epoch[t] = "after"))
            => waiting > 0)
    /\ [][\A t \in Threads :
            (ppc = "dead" /\ waiting > 0 /\ pc[t] # "idle")
            => pc'[t] \in {"blocked", "woken"}]_vars

\* select has failed and the thread has ended; one caller was pending then,
\* not yet released, and another called afterwards: both wait.
C15_Witness ==
    /\ ppc = "dead" /\ result = "SelectError" /\ waiting = 2
    /\ \E t, u \in Threads :
         /\ pc[t] = "blocked" /\ epoch[t] # "after" /\ served[t] = 0 /\ res[t] = "Ok"
         /\ pc[u] = "blocked" /\ epoch[u] = "after" /\ res[u] = "OkFalse"

\* C16 (as claimed): every descriptor index the reactor passes to the bitset
\* adapter's set or test operation, the descriptors of the registrations
\* (update_events, set_fds) and the notification channel's own descriptor
\* (set_fds) alike, lies in 0 .. FD_SETSIZE - 1.
C16_BitsetIndicesInRange ==
    [][(ppc = "loop" /\ ppc' # "loop")
         => \A n \in event_fd \cup Fds(vec) : InRange(n)]_vars

\* The poll thread's first iteration: it does not fold (there was no select),
\* builds the bitsets from the table as it stands, resets the counter and
\* wakes every blocked caller.
FirstIteration ==
    /\ ppc = "loop"
    /\ vec' = vec
    /\ fds' = set_fds(vec, event_fd).fds
    /\ waiting' = 0
    /\ \A t \in Threads : pc[t] = "blocked" => pc'[t] = "woken"

\* A call made before the poll thread's first step signals nothing, does its
\* table operation and waits; select is not called before the first
\* iteration has built the bitsets; such a call does not return before that.
EarlyModifyIncluded ==
    /\ [][\A t \in Threads, o \in Ops :
            (Modify(t, o) /\ ppc \in {"none", "create"})
            => /\ event_fd = {} /\ pending' = pending
               /\ vec' = run_op(o, vec, event_fd, cap).vec
               /\ pc'[t] = "blocked"]_vars
    /\ [](~update => ppc \notin {"select", "destroy"})
    /\ [][(~update /\ update') => FirstIteration]_vars
    /\ [][\A t \in Threads : (Returns(t) /\ epoch[t] = "before") => update]_vars

\* C17 (as claimed): a modify call made before the poll thread has created
\* the notification channel, whose signal is a no-op, is not lost: its table
\* change is in the bitsets built by the poll thread's first iteration, which
\* does not block in select first, and the caller returns once that first
\* iteration has reset the counter (when it runs again it leaves modify).
C17_EarlyModifyNotLost ==
    /\ EarlyModifyIncluded
    /\ [][\A t \in Threads :
            (epoch[t] = "before" /\ pc[t] = "woken" /\ served[t] >= 1)
            => pc'[t] # "blocked"]_vars

\* C17, what holds with a finite workload and a live poll thread: a call
\* pending while the channel does not exist yet eventually returns.
C17_EarlyModifyServed ==
    \A t \in Threads : (pc[t] # "idle" /\ event_fd = {}) ~> (pc[t] = "idle")

\* The interest the table asks for: the notification descriptor for Read, and
\* (fd, e) for the registrations and events that hold a stored waker.
TableInterest(e) ==
    (IF e = "Read" THEN event_fd ELSE {})
    \cup {vec[i].fd : i \in {j \in DOMAIN vec : vec[j].wakers[e] # {}}}

\* C18: whenever the poll thread is blocked in select and no notification is
\* pending on the channel, the counter `waiting` is zero and the bitsets select
\* is using are exactly the current table's interest; any modify call made
\* while the poll thread is in select leaves a notification pending, which
\* stays pending until select has returned.
C18_NoMissedUpdates ==
    /\ []((ppc = "select" /\ ~pending)
           => (waiting = 0 /\ \A e \in Event : fds[e] = TableInterest(e)))
    /\ [][(ppc = "select" /\ (vec' # vec \/ waiting' # waiting)) => pending']_vars
    /\ [][(ppc = "select" /\ pending /\ ppc' = "select") => pending']_vars

\* The poll thread is blocked in select with nothing pending, every caller
\* has returned, and the bitsets hold the registered descriptor whose waker a
\* fetch_or_set stored.
C18_Witness ==
    /\ ppc = "select" /\ ~pending /\ waiting = 0 /\ update
    /\ \A t \in Threads : pc[t] = "idle"
    /\ \E i \in DOMAIN vec, e \in Event :
         vec[i].wakers[e] # {} /\ vec[i].fd \in fds[e] /\ vec[i].fd \notin event_fd

\* C19: in every reachable state, for every registration and event, the
\* event's armed bit and a stored waker for that event are never both present.
C19_ArmedExcludesWaker ==
    \A i \in DOMAIN vec, e \in Event :
        ~(e \in vec[i].events /\ vec[i].wakers[e] # {})

\* update_events has just armed one event of a registration and invoked its
\* waker, while the registration's other event still holds its waker.
C19_Witness ==
    /\ last.op = "update_events"
    /\ Len(invoked) = 1
    /\ \E i \in DOMAIN vec, e \in Event :
         /\ vec[i].fd = invoked[1].fd /\ e = invoked[1].ev
         /\ e \in vec[i].events /\ vec[i].wakers[e] = {}
         /\ \E o \in Event \ {e} : o \notin vec[i].events /\ vec[i].wakers[o] # {}

\* C20 (as claimed): the fold of a poll cycle sets an armed bit or invokes a
\* waker for a registration only if that same registration, not an earlier one
\* of the same descriptor number, held a waker for that event when the bitsets
\* of that select call were built; a registration created after they were
\* built never receives the readiness observed for its predecessor.  (Stated
\* for the registrations whose descriptor is not the notification channel's;
\* one whose descriptor is, see C12, is armed by every signal.)
C20_FoldOnlySameRegistration ==
    [][(ppc = "loop" /\ update /\ ppc' # "loop")
         => \A i \in DOMAIN vec, e \in Event :
               (/\ vec[i].fd \notin event_fd
                /\ vec[i].fd \in fds[e] \/ e \in vec'[i].events \ vec[i].events)
               => vec[i].fd \in held[e]]_vars

====
